---------------------------- MODULE Spec2Model ----------------------------
(***************************************************************************)
(* A model of the report-fetching layer of shams-report:                   *)
(* src/reportFetcher.js (fetchReport, its cache and its normalizer) as it  *)
(* is called by the HTTP facade of src/server.js, the limit handling of    *)
(* that facade, and the duration workers of the browser page.              *)
(*                                                                         *)
(* JavaScript values are modelled as follows.                              *)
(*   - an object is a TLA+ record whose DOMAIN is the set of its own       *)
(*     properties (an absent property is absent from the DOMAIN);          *)
(*   - a value whose type the code inspects (Array.isArray, spread) is a   *)
(*     tagged record [t |-> "arr" | "rec" | "str" | "null", v |-> ...];    *)
(*   - an array the code shares by reference (out, firstRows, the cached   *)
(*     data, the returned rows) is an index into heap;                     *)
(*   - undefined and null are the strings Undefined and Null.              *)
(***************************************************************************)
EXTENDS Integers, Sequences, FiniteSets, TLC

VARIABLES
    now,          \* Date.now(), in milliseconds
    reportCache,  \* the Map reportCache: cache key -> {expires, data}
    heap,         \* the arrays allocated so far: heap[i] is the content of array i
    pc,           \* pc[p]: where caller p's fetchReport call is suspended
    call,         \* call[p]: the arguments and the local variables of p's call
    hist,         \* hist[p]: what p's call has done so far (history, not program state)
    ret,          \* ret[p]: how p's call settled (returned value or thrown error)
    prev,         \* prev[p]: the call p made before the present one (history)
    ncalls,       \* ncalls[p]: how many calls p has started
    ticks,        \* how many times the clock was advanced between steps
    world,        \* the callers, arguments and upstream answers of this behaviour
    facade,       \* the request GET /api/reports/:type being handled by the HTTP facade
    browser       \* the report page of the browser: its table and its duration workers

vars == <<now, reportCache, heap, pc, call, hist, ret, prev, ncalls, ticks, world, facade,
          browser>>

---------------------------------------------------------------------------
(* Bounds of the model *)

NumProcs == 2      \* callers that exist
MaxCalls == 2      \* calls one caller makes
MaxTicks == 1      \* clock advances between steps
MaxPages == 3      \* upstream pages one call may receive
MaxFailures == 1   \* requests of one call that fail, where calls follow one another
MaxLen == 3        \* rows of one page, where every page is enumerated
MaxLimitLen == 4   \* characters of the limit query parameter of a request
MaxAudio == 6      \* records with a recording among the records the page has fetched
MaxRenders == 2    \* times the table of the page is written

Procs == 1 .. NumProcs

---------------------------------------------------------------------------
(* JavaScript values *)

Undefined == "<undefined>"
Null == "<null>"

Arr(s) == [t |-> "arr", v |-> s]
Rec(r) == [t |-> "rec", v |-> r]
Str(s) == [t |-> "str", v |-> s]
JsNull == [t |-> "null", v |-> Null]

IsArray(x) == x.t = "arr"

Has(r, f) == f \in DOMAIN r

\* r with property f set to v (added when absent)
Put(r, f, v) == [g \in (DOMAIN r) \cup {f} |-> IF g = f THEN v ELSE r[g]]

\* truthiness of a property that holds a number when present
TruthyNum(r, f) == Has(r, f) /\ r[f] # 0

\* truthiness of a property that holds a string when present
TruthyStr(r, f) == Has(r, f) /\ r[f] # ""

\* Array.prototype.slice(0, n) for n >= 0
Slice(s, n) == SubSeq(s, 1, IF n < Len(s) THEN n ELSE Len(s))


---------------------------------------------------------------------------
(* Strings the code builds: a string is a sequence of tokens *)

Digits == <<"0", "1", "2", "3", "4", "5", "6", "7", "8", "9">>

\* String(n) for a natural number n
RECURSIVE ToStr(_)
ToStr(n) == IF n < 10 THEN <<Digits[n + 1]>>
            ELSE ToStr(n \div 10) \o <<Digits[(n % 10) + 1]>>

\* the characters of a string value that the code may spread
CharsOf(s) == CASE s = "K1" -> <<"K", "1">>
                [] s = "K2" -> <<"K", "2">>
                [] s = "" -> <<>>
                [] OTHER -> <<s>>

---------------------------------------------------------------------------
(* The endpoint registry *)

MAX_RETRIES == 3

ENDPOINTS == [cdrs |-> "/api/v2/reports/cdrs",
              queueCalls |-> "/api/v2/reports/queues_cdrs",
              queueOutboundCalls |-> "/api/v2/reports/queues_outbound_cdrs",
              campaignsActivity |-> "/api/v2/reports/campaigns/leads/history"]

\* ENDPOINTS is an object literal: a lookup also finds what Object.prototype holds
ObjectPrototype == {"constructor", "toString", "valueOf", "hasOwnProperty", "__proto__"}

\* the truthiness of ENDPOINTS[report]
EndpointKnown(report) == report \in (DOMAIN ENDPOINTS) \cup ObjectPrototype

CACHE_TTL == 300000

FirstDelay == 1000

\* a cache key that tells calls with different maxRows apart
\* a cache key without the tenant
makeCacheKey_NoTenant(report, tenant, params) ==
    LET startDate == IF Has(params, "startDate") THEN ToStr(params.startDate) ELSE <<>>
        endDate == IF Has(params, "endDate") THEN ToStr(params.endDate) ELSE <<>>
    IN <<report>> \o <<"|">> \o <<"|">> \o startDate \o <<"|">> \o endDate

makeCacheKey_WithMaxRows(report, tenant, params) ==
    <<report>> \o <<"|">> \o tenant \o <<"|">>
    \o (IF Has(params, "startDate") THEN ToStr(params.startDate) ELSE <<>>) \o <<"|">>
    \o (IF Has(params, "endDate") THEN ToStr(params.endDate) ELSE <<>>) \o <<"|">>
    \o (IF Has(params, "maxRows") THEN ToStr(params.maxRows) ELSE <<>>)

\* `${report}|${tenant}|${startDate}|${endDate}`, absent dates defaulting to ''
makeCacheKey(report, tenant, params) ==
    LET startDate == IF Has(params, "startDate") THEN ToStr(params.startDate) ELSE <<>>
        endDate == IF Has(params, "endDate") THEN ToStr(params.endDate) ELSE <<>>
    IN <<report>> \o <<"|">> \o tenant \o <<"|">> \o startDate \o <<"|">> \o endDate

QueueOutboundFields ==
    <<"called_time", "agent_name", "agent_ext", "destination", "answered_time",
      "hangup_time", "wait_duration", "talked_duration", "queue_name", "queue_history",
      "agent_history", "agent_hangup", "call_id", "bleg_call_id", "event_timestamp",
      "agent_first_name", "agent_last_name", "agent_extension", "agent_email",
      "agent_talk_time", "agent_connect_time", "agent_action", "agent_transfer", "csat",
      "media_recording_id", "recording_filename", "caller_id_name", "caller_id_number",
      "a_leg", "to", "interaction_id", "agent_disposition", "agent_subdisposition">>

QueueCallsFields ==
    <<"called_time", "caller_id_number", "caller_id_name", "answered_time", "hangup_time",
      "wait_duration", "talked_duration", "queue_name", "abandoned", "queue_history",
      "agent_history", "agent_attempts", "agent_hangup", "call_id", "bleg_call_id",
      "event_timestamp", "agent_first_name", "agent_last_name", "agent_extension",
      "agent_email", "agent_talk_time", "agent_connect_time", "agent_action",
      "agent_transfer", "csat", "media_recording_id", "recording_filename",
      "callee_id_number", "a_leg", "interaction_id", "agent_disposition",
      "agent_subdisposition">>

CampaignsActivityFields ==
    <<"datetime", "timestamp", "campaign_name", "campaign_type", "lead_name",
      "lead_first_name", "lead_last_name", "lead_number", "lead_ticket_id", "lead_type",
      "agent_name", "agent_extension", "agent_talk_time", "lead_history", "call_id",
      "campaign_timestamps", "media_recording_id", "recording_filename", "status",
      "customer_wait_time_sla", "customer_wait_time_over_sla", "disposition",
      "hangup_cause", "lead_disposition", "agent_subdisposition", "answered_time">>

\* list.join(','): the elements with a comma between any two
RECURSIVE Join(_)
Join(list) ==
    IF Len(list) <= 1 THEN list
    ELSE <<Head(list), ",">> \o Join(Tail(list))

\* the projection of a report that has one, as the query carries it
FieldsOf(report) ==
    IF report = "queueOutboundCalls" THEN Join(QueueOutboundFields)
    ELSE IF report = "queueCalls" THEN Join(QueueCallsFields)
    ELSE Join(CampaignsActivityFields)

\* a query in which a fields value of the caller wins over the projection of the report
BuildQs_CallerFields(report, params, startKey) ==
    LET withFields ==
            IF report \in {"queueOutboundCalls", "queueCalls", "campaignsActivity"}
               /\ ~Has(params, "fields")
            THEN Put(params, "fields", FieldsOf(report))
            ELSE params
    IN IF startKey # Undefined /\ startKey # ""
       THEN Put(withFields, "start_key", startKey)
       ELSE withFields

\* a query in which a start_key of the caller wins over the cursor of the loop
BuildQs_ParamsWin(report, params, startKey) ==
    IF Has(params, "start_key") \/ startKey = Undefined \/ startKey = ""
    THEN params
    ELSE Put(params, "start_key", startKey)

\* the query string of one page request: params, then the report's projection,
\* then the cursor of the loop (a falsy cursor adds nothing)
BuildQs(report, params, startKey) ==
    LET withFields ==
            IF report \in {"queueOutboundCalls", "queueCalls", "campaignsActivity"}
            THEN Put(params, "fields", FieldsOf(report))
            ELSE params
    IN IF startKey # Undefined /\ startKey # ""
       THEN Put(withFields, "start_key", startKey)
       ELSE withFields

---------------------------------------------------------------------------
(* One page: the cursor and the records of a response body *)

\* a body that is a JSON object: its own properties and their order
ObjBody(fields, order) == [t |-> "rec", v |-> fields, order |-> order]

\* a body that is a JSON array
ArrBody(records) == [t |-> "arr", v |-> records, order |-> <<>>]

\* the body null
NullBody == [t |-> "null", v |-> Null, order |-> <<>>]

\* reading a property of the body throws a TypeError
BodyThrows(payload) == payload.t = "null"

\* payload.next_start_key ?? null
NextStartKeyOf(payload) ==
    IF payload.t = "rec" /\ Has(payload.v, "next_start_key")
    THEN payload.v.next_start_key
    ELSE Null

IndexNames == <<"0", "1", "2", "3">>

\* the own enumerable properties that { ...v } copies
Spread(v) ==
    CASE v.t = "rec" -> v.v
      [] v.t = "arr" -> [i \in {IndexNames[j] : j \in 1 .. Len(v.v)} |->
                            v.v[CHOOSE j \in 1 .. Len(v.v) : IndexNames[j] = i]]
      [] v.t = "str" -> [i \in {IndexNames[j] : j \in 1 .. Len(CharsOf(v.v))} |->
                            CharsOf(v.v)[CHOOSE j \in 1 .. Len(CharsOf(v.v)) : IndexNames[j] = i]]
      [] OTHER -> <<>>

\* a property value of the body as a tagged value
Tagged(f, x) == IF f = "next_start_key"
                THEN (IF x = Null THEN JsNull ELSE Str(x))
                ELSE x

\* ({ key: k, ...v }): v's own "key" property wins over the annotation
Annotate(k, v) ==
    LET own == Spread(v)
    IN [g \in (DOMAIN own) \cup {"key"} |-> IF g \in DOMAIN own THEN own[g] ELSE k]

\* Object.entries(payload).map(([k, v]) => ({ key: k, ...v }))
Flatten(payload) ==
    [i \in 1 .. Len(payload.order) |->
        Annotate(payload.order[i], Tagged(payload.order[i], payload.v[payload.order[i]]))]

\* the records of a body, by the first rule that matches
ExtractRecords(payload) ==
    IF payload.t = "rec" /\ Has(payload.v, "data") /\ IsArray(payload.v.data)
    THEN payload.v.data.v
    ELSE IF payload.t = "arr"
    THEN payload.v
    ELSE IF payload.t = "rec" /\ Has(payload.v, "rows") /\ IsArray(payload.v.rows)
    THEN payload.v.rows.v
    ELSE Flatten(payload)

\* maxRows ? (maxRows - out.length) : records.length
Remaining(params, outLen, records) ==
    IF Has(params, "maxRows") /\ params.maxRows # 0
    THEN params.maxRows - outLen
    ELSE Len(records)

\* out after the page's records were pushed
Accumulate(params, out, records) ==
    LET remaining == Remaining(params, Len(out), records)
    IN IF remaining > 0 THEN out \o Slice(records, remaining) ELSE out

---------------------------------------------------------------------------
(* The row normalizer *)

\* the duration derivation of one queue record
DeriveDurations(record) ==
    LET r1 == IF ~TruthyNum(record, "talked_duration")
                 /\ TruthyNum(record, "hangup_time") /\ TruthyNum(record, "answered_time")
              THEN Put(record, "talked_duration", record.hangup_time - record.answered_time)
              ELSE record
    IN IF ~TruthyNum(r1, "wait_duration") /\ TruthyNum(r1, "called_time")
       THEN IF TruthyNum(r1, "answered_time")
            THEN Put(r1, "wait_duration", r1.answered_time - r1.called_time)
            ELSE IF TruthyNum(r1, "hangup_time")
            THEN Put(r1, "wait_duration", r1.hangup_time - r1.called_time)
            ELSE r1
       ELSE r1

\* no grouping by call_id: every row is kept
FirstRows_KeepAll(rows, seen) == rows

\* the first occurrence of each call_id; rows without a call_id are all kept
RECURSIVE FirstRows(_, _)
FirstRows(rows, seen) ==
    IF rows = <<>> THEN <<>>
    ELSE LET rec == Head(rows)
         IN IF ~TruthyStr(rec, "call_id")
            THEN <<rec>> \o FirstRows(Tail(rows), seen)
            ELSE IF rec.call_id \notin seen
            THEN <<rec>> \o FirstRows(Tail(rows), seen \cup {rec.call_id})
            ELSE FirstRows(Tail(rows), seen)

\* a cut that drops the first element of the history array f of a row
TruncateHistory_DropFirst(r, f) ==
    IF Has(r, f) /\ IsArray(r[f]) /\ Len(r[f].v) > 1
    THEN Put(r, f, Arr(Tail(r[f].v)))
    ELSE r

\* keep only the first element of the history array f of a row
TruncateHistory(r, f) ==
    IF Has(r, f) /\ IsArray(r[f]) /\ Len(r[f].v) > 1
    THEN Put(r, f, Arr(<<r[f].v[1]>>))
    ELSE r

\* a cut that keeps the last element of agent_history
TruncateAgentHistory_Last(r) ==
    IF Has(r, "agent_history") /\ IsArray(r.agent_history) /\ Len(r.agent_history.v) > 1
    THEN Put(r, "agent_history", Arr(<<r.agent_history.v[Len(r.agent_history.v)]>>))
    ELSE r

TruncateAgentHistory(r) == TruncateHistory(r, "agent_history")

\* a cut of queue_history that cuts agent_history too
TruncateQueueHistory_Both(r) ==
    TruncateHistory(TruncateHistory(r, "queue_history"), "agent_history")

TruncateQueueHistory(r) == TruncateHistory(r, "queue_history")

\* a normalizer that stops after the duration derivation
Normalize_DerivedOnly(report, out) ==
    IF report \in {"queueCalls", "queueOutboundCalls"}
    THEN [i \in 1 .. Len(out) |-> DeriveDurations(out[i])]
    ELSE out

\* a normalizer that treats every report as queueCalls
Normalize_AsQueueCalls(report, out) ==
    LET derived == [i \in 1 .. Len(out) |-> DeriveDurations(out[i])]
        firstRows == FirstRows(derived, {})
    IN [i \in 1 .. Len(firstRows) |-> TruncateAgentHistory(firstRows[i])]

\* the rows fetchReport caches and returns for the accumulated rows out
Normalize(report, out) ==
    LET derived == IF report \in {"queueCalls", "queueOutboundCalls"}
                   THEN [i \in 1 .. Len(out) |-> DeriveDurations(out[i])]
                   ELSE out
        firstRows == FirstRows(derived, {})
    IN IF report = "queueCalls"
       THEN [i \in 1 .. Len(firstRows) |-> TruncateAgentHistory(firstRows[i])]
       ELSE IF report = "queueOutboundCalls"
       THEN [i \in 1 .. Len(derived) |-> TruncateQueueHistory(derived[i])]
       ELSE derived

---------------------------------------------------------------------------
(* The arguments callers pass and the answers the upstream gives *)

R1 == [call_id |-> "X", called_time |-> 100, answered_time |-> 150, hangup_time |-> 200,
       agent_history |-> Arr(<<"a1", "a2">>), queue_history |-> Arr(<<"q1", "q2", "q3">>)]

R2 == [call_id |-> "X", called_time |-> 100, hangup_time |-> 130,
       agent_history |-> Arr(<<"b1", "b2">>), queue_history |-> Arr(<<"q9">>)]

R3 == [called_time |-> 100, answered_time |-> 150, hangup_time |-> 200,
       talked_duration |-> 0, wait_duration |-> 7, agent_history |-> Str("[]")]

R4 == [call_id |-> "Y", answered_time |-> 150, hangup_time |-> 200, talked_duration |-> 9,
       agent_history |-> Arr(<<>>), queue_history |-> Arr(<<"q4", "q5">>)]

R5 == [call_id |-> "", called_time |-> 0, answered_time |-> 0, hangup_time |-> 200,
       agent_history |-> Arr(<<"c1">>), queue_history |-> Str("q")]

R6 == [call_id |-> "Y", called_time |-> 100, answered_time |-> 150, wait_duration |-> 0,
       agent_history |-> Arr(<<"d1", "d2", "d3">>)]

Rows == {R1, R2, R3, R4, R5, R6}

\* the bodies { data: [...] } with at most MaxLen of the rows, in any order
Pages ==
    {ObjBody([data |-> Arr(rows)], <<"data">>) :
        rows \in UNION {[1 .. n -> Rows] : n \in 0 .. MaxLen}}

\* the bodies the upstream may answer a GET with: those the world lists and, in a world
\* that enumerates pages, every page
Answers == world.bodies \cup (IF world.pages THEN Pages ELSE {})

\* what a request was made for: the report, the tenant and the window of its call
OriginOf(report, tenant, params) ==
    [report |-> report, tenant |-> tenant,
     startDate |-> IF Has(params, "startDate") THEN params.startDate ELSE Undefined,
     endDate |-> IF Has(params, "endDate") THEN params.endDate ELSE Undefined]

\* the body payload as the answer to a request made for origin: each row of its data
\* array is a row of that report, tenant and window
AnswerTo(payload, origin) ==
    IF payload.t = "rec" /\ Has(payload.v, "data") /\ IsArray(payload.v.data)
    THEN [payload EXCEPT !.v = Put(@, "data",
              Arr([i \in 1 .. Len(payload.v.data.v) |->
                      Put(payload.v.data.v[i], "origin", origin)]))]
    ELSE payload

\* the bodies the upstream may answer a GET of the call of p with: in a world that marks
\* its rows, the rows of an answer are marked with what the request was made for
AnswersTo(p) ==
    IF world.stamped
    THEN {AnswerTo(payload, OriginOf(call[p].report, call[p].tenant, call[p].params)) :
              payload \in Answers}
    ELSE Answers

\* a row a caller may push into an array it was handed
CallerRow == [call_id |-> "mine"]

EmptyMore == ObjBody([data |-> Arr(<<>>), next_start_key |-> "K1"], <<"data", "next_start_key">>)

EmptyEnd == ObjBody([data |-> Arr(<<>>)], <<"data">>)

TwoMore == ObjBody([data |-> Arr(<<R1, R2>>), next_start_key |-> "K2"],
                   <<"data", "next_start_key">>)

ThreeEnd == ObjBody([data |-> Arr(<<R1, R3, R2>>), next_start_key |-> Null],
                    <<"data", "next_start_key">>)

BareArray == ArrBody(<<R3>>)

RowsMore == ObjBody([rows |-> Arr(<<R2>>), data |-> Str("n/a"), next_start_key |-> "K1"],
                    <<"rows", "data", "next_start_key">>)

ObjectOfObjects == ObjBody([a |-> Rec(R1), b |-> Rec(R3)], <<"a", "b">>)

\* a body with a data array and a rows array
DataAndRows == ObjBody([rows |-> Arr(<<R2>>), data |-> Arr(<<R1, R3>>)], <<"rows", "data">>)

\* an object of objects, one of which has a property named key
OwnKey == ObjBody([a |-> Rec([key |-> "mine", call_id |-> "X"]), b |-> Rec(R2)],
                  <<"a", "b">>)

\* an object whose only property is a string
ErrorObject == ObjBody([error |-> Str("no")], <<"error">>)

AllBodies == {EmptyMore, EmptyEnd, TwoMore, ThreeEnd, BareArray, RowsMore,
              ObjectOfObjects, NullBody}

AllReports == (DOMAIN ENDPOINTS) \cup {"bogus", "constructor"}

NoParams == [x \in {} |-> 0]

Windows == {NoParams, [startDate |-> 1, endDate |-> 2]}

Limits == {NoParams, [maxRows |-> 1]}

Resumes == {NoParams, [start_key |-> "K2"]}

AllParams == {w @@ m @@ k : w \in Windows, m \in Limits, k \in Resumes}

Errors == {"e1", "e2"}

TypeError == "TypeError"

UnknownReport == "Unknown report type"

---------------------------------------------------------------------------
(* The state of one caller *)

\* let token: the local of a call that has acquired no token yet
NoToken == <<>>

NoCall == [report |-> "", tenant |-> <<>>, params |-> NoParams, cacheKey |-> <<>>,
           out |-> <<>>, startKey |-> Undefined, nextStartKey |-> Null,
           token |-> NoToken, attempt |-> 0, delay |-> 0, wakeAt |-> 0]

NoHist == [startedAt |-> 0, hit |-> FALSE, tokens |-> 0, gets |-> 0, keys |-> <<>>,
           log |-> <<>>, fails |-> <<>>, sleeps |-> <<>>, bodies |-> <<>>, wrote |-> FALSE,
           sent |-> <<>>]

NoRet == [status |-> "pending", kind |-> "none", rows |-> 0, next |-> Null,
          error |-> "", snap |-> <<>>, at |-> 0, touched |-> FALSE]

NoPrev == [made |-> FALSE, report |-> "", tenant |-> <<>>, params |-> NoParams,
           cacheKey |-> <<>>, ret |-> NoRet, wrote |-> FALSE]

---------------------------------------------------------------------------
(* The response cache *)

\* a cache lookup that still serves an entry at the instant it expires
CacheLive_Inclusive(cache, key, t) == key \in DOMAIN cache /\ t <= cache[key].expires

\* the comparison of the cache lookup turned around
CacheLive_Inverted(cache, key, t) == key \in DOMAIN cache /\ t > cache[key].expires

\* cached && Date.now() < cached.expires
CacheLive(cache, key, t) == key \in DOMAIN cache /\ t < cache[key].expires

\* a cache store that leaves an entry that is already there
CacheSet_KeepExisting(cache, key, t, data) ==
    IF key \in DOMAIN cache THEN cache
    ELSE Put(cache, key, [expires |-> t + CACHE_TTL, data |-> data])

\* reportCache.set(cacheKey, { expires: Date.now() + CACHE_TTL, data })
CacheSet(cache, key, t, data) == Put(cache, key, [expires |-> t + CACHE_TTL, data |-> data])

\* what a cache hit hands to the caller: a new array with the cached elements
HitValue(arrays, cached) ==
    [status |-> "returned", kind |-> "array", rows |-> Len(arrays) + 1, next |-> Undefined]

\* the arrays after a cache hit
HitArrays(arrays, cached) == Append(arrays, arrays[cached.data])

\* what a fetch from upstream hands to the caller: { rows, next }, rows being the
\* array that was stored in the cache
MissValue(arrays, next) ==
    [status |-> "returned", kind |-> "object", rows |-> Len(arrays) + 1, next |-> next]

Settled(value, arrays, t) ==
    [status |-> value.status, kind |-> value.kind, rows |-> value.rows, next |-> value.next,
     error |-> "", snap |-> arrays[value.rows], at |-> t, touched |-> FALSE]

\* a failure that hands the caller an array
Threw_WithRows(err, t) ==
    [status |-> "threw", kind |-> "array", rows |-> 1, next |-> Null,
     error |-> err, snap |-> <<>>, at |-> t, touched |-> FALSE]

\* what a call that fails hands to the caller: the error and nothing else
Threw(err, t) ==
    [status |-> "threw", kind |-> "none", rows |-> 0, next |-> Null,
     error |-> err, snap |-> <<>>, at |-> t, touched |-> FALSE]

---------------------------------------------------------------------------
(* fetchReport *)

\* a retry loop that allows one attempt more
LastAttempt_OneMore(attempt) == attempt = MAX_RETRIES

\* the retry loop gives up on this attempt
LastAttempt(attempt) == attempt = MAX_RETRIES - 1

\* a backoff that does not grow
NextDelay_Constant(delay) == delay

\* delay *= 2
NextDelay(delay) == delay * 2

\* the first error of the call kept and thrown at the end
Rethrown_First(err, fails) == IF fails = <<>> THEN err ELSE fails[1]

\* the error the call fails with when the attempt that caught err was the last
Rethrown(err, fails) == err

\* a pagination loop that stops after its first page
StopsPaging_AfterFirstPage(out, nextStartKey) == TRUE

\* a pagination loop that goes on until it has more than one row
StopsPaging_AfterSecondRow(out, nextStartKey) == Len(out) > 1 \/ nextStartKey = Null

\* a pagination loop that runs to the last page
StopsPaging_AtEndOnly(out, nextStartKey) == nextStartKey = Null

\* the pagination loop stops after this page
StopsPaging(out, nextStartKey) == Len(out) > 0 \/ nextStartKey = Null

\* the start_key the request carries
SentStartKey(qs) == IF Has(qs, "start_key") THEN qs.start_key ELSE Undefined

\* the history of the calls after a step that would record h: a world that keeps no
\* history leaves it as it is, so that a call of any length has finitely many states
Kept(h) == IF world.history THEN h ELSE hist

\* fetchReport(report, tenant, params) up to its first suspension
StartCall(p, report, tenant, params) ==
    /\ p \in world.procs
    /\ pc[p] = "idle"
    /\ ncalls[p] < world.calls
    /\ ncalls' = [ncalls EXCEPT ![p] = @ + 1]
    /\ LET key == makeCacheKey(report, tenant, params)
           args == [NoCall EXCEPT !.report = report, !.tenant = tenant,
                                  !.params = params, !.cacheKey = key]
       IN IF ~EndpointKnown(report)
          THEN /\ call' = [call EXCEPT ![p] = [NoCall EXCEPT !.report = report,
                                                  !.tenant = tenant, !.params = params]]
               /\ hist' = Kept([hist EXCEPT ![p] = [NoHist EXCEPT !.startedAt = now]])
               /\ ret' = [ret EXCEPT ![p] = Threw(UnknownReport, now)]
               /\ pc' = [pc EXCEPT ![p] = "done"]
               /\ UNCHANGED <<heap, reportCache>>
          ELSE IF CacheLive(reportCache, key, now)
          THEN /\ call' = [call EXCEPT ![p] = args]
               /\ hist' = Kept([hist EXCEPT ![p] = [NoHist EXCEPT !.startedAt = now,
                                                                   !.hit = TRUE]])
               /\ heap' = HitArrays(heap, reportCache[key])
               /\ ret' = [ret EXCEPT ![p] =
                            Settled(HitValue(heap, reportCache[key]), heap', now)]
               /\ pc' = [pc EXCEPT ![p] = "done"]
               /\ UNCHANGED reportCache
          ELSE /\ call' = [call EXCEPT ![p] = [args EXCEPT !.delay = FirstDelay]]
               /\ hist' = Kept([hist EXCEPT ![p] = [NoHist EXCEPT !.startedAt = now,
                                                                   !.tokens = 1]])
               /\ ret' = [ret EXCEPT ![p] = NoRet]
               /\ pc' = [pc EXCEPT ![p] = "token"]
               /\ UNCHANGED <<heap, reportCache>>
    /\ UNCHANGED <<now, prev, ticks, world, facade, browser>>

\* the catch block, for the error err of the step named what
Catch(p, err, what) ==
    /\ hist' = Kept([hist EXCEPT ![p].fails = Append(@, err),
                                 ![p].log = Append(@, what),
                                 ![p].sleeps = IF LastAttempt(call[p].attempt) THEN @
                                               ELSE Append(@, call[p].delay)])
    /\ IF LastAttempt(call[p].attempt)
       THEN /\ ret' = [ret EXCEPT ![p] = Threw(Rethrown(err, hist[p].fails), now)]
            /\ pc' = [pc EXCEPT ![p] = "done"]
            /\ call' = call
       ELSE /\ call' = [call EXCEPT ![p].wakeAt = now + call[p].delay]
            /\ pc' = [pc EXCEPT ![p] = "sleep"]
            /\ ret' = ret
    /\ UNCHANGED <<now, reportCache, heap, prev, ncalls, ticks, world, facade, browser>>

\* what getPortalToken(tenant) resolves with at the n-th acquisition of a call
AcquiredToken(tenant, n) == <<tenant, n>>

\* a call that keeps the first token it acquired
TokenAfter_KeepFirst(token, acquired) == IF token = NoToken THEN acquired ELSE token

\* token = await getPortalToken(tenant): the local token after the await
TokenAfter(token, acquired) == acquired

\* the GET as the upstream sees it: the url of the report, the query string and the
\* Authorization header
Request(report, qs, token) == [report |-> report, qs |-> qs, bearer |-> token]

\* getPortalToken resolves: the GET of the page is issued
TokenOk(p) ==
    LET token == TokenAfter(call[p].token, AcquiredToken(call[p].tenant, hist[p].tokens))
        qs == BuildQs(call[p].report, call[p].params, call[p].startKey)
    IN /\ pc[p] = "token"
       /\ call' = [call EXCEPT ![p].token = token]
       /\ hist' = Kept([hist EXCEPT ![p].gets = @ + 1,
                                    ![p].keys = Append(@, SentStartKey(qs)),
                                    ![p].sent = IF world.requests
                                                THEN Append(@, Request(call[p].report, qs,
                                                                       token))
                                                ELSE @])
       /\ pc' = [pc EXCEPT ![p] = "get"]
       /\ UNCHANGED <<now, reportCache, heap, ret, prev, ncalls, ticks, world, facade, browser>>

\* getPortalToken rejects
TokenFail(p, err) ==
    /\ pc[p] = "token"
    /\ Len(hist[p].fails) < world.failures
    /\ Catch(p, err, "tokenFail")

\* axios.get rejects (network failure or an HTTP error status)
GetFail(p, err) ==
    /\ pc[p] = "get"
    /\ Len(hist[p].fails) < world.failures
    /\ Catch(p, err, "getFail")

\* a cache store that stamps the entry with the clock value of the start of the call
StoreClock_AtStart(startedAt, t) == startedAt

\* the clock value the cache store reads: Date.now() when reportCache.set runs
StoreClock(startedAt, t) == t

\* post-processing, cache store and return
Complete(p, out, nextStartKey) ==
    LET rows == Normalize(call[p].report, out)
    IN /\ heap' = Append(heap, rows)
       /\ reportCache' = CacheSet(reportCache, call[p].cacheKey,
                                  StoreClock(hist[p].startedAt, now), Len(heap) + 1)
       /\ ret' = [ret EXCEPT ![p] = Settled(MissValue(heap, nextStartKey), heap', now)]
       /\ call' = [call EXCEPT ![p].out = out, ![p].nextStartKey = nextStartKey]
       /\ pc' = [pc EXCEPT ![p] = "done"]

\* axios.get resolves with the body payload: one turn of the pagination loop
GetOk(p, payload) ==
    /\ pc[p] = "get"
    /\ payload \in AnswersTo(p)
    /\ IF BodyThrows(payload)
       THEN Catch(p, TypeError, "bodyThrow")
       ELSE LET nextStartKey == NextStartKeyOf(payload)
                out == Accumulate(call[p].params, call[p].out, ExtractRecords(payload))
            IN /\ \/ StopsPaging(out, nextStartKey)
                  \/ Len(hist[p].bodies) + 1 < MaxPages
                  \/ ~world.history
               /\ hist' = Kept([hist EXCEPT ![p].log = Append(@, "page"),
                                            ![p].bodies = Append(@, payload),
                                            ![p].wrote = StopsPaging(out, nextStartKey),
                                            ![p].tokens = IF StopsPaging(out, nextStartKey)
                                                          THEN @ ELSE @ + 1])
               /\ IF StopsPaging(out, nextStartKey)
                  THEN Complete(p, out, nextStartKey)
                  ELSE /\ call' = [call EXCEPT ![p].out = out,
                                               ![p].nextStartKey = nextStartKey,
                                               ![p].startKey = nextStartKey]
                       /\ pc' = [pc EXCEPT ![p] = "token"]
                       /\ UNCHANGED <<heap, reportCache, ret>>
               /\ UNCHANGED <<now, prev, ncalls, ticks, world, facade, browser>>

\* a retry that starts again from the first page
RetryStartKey_Restart(startKey) == Undefined

\* the cursor the next attempt starts with: startKey is declared outside the retry loop
\* and no attempt resets it
RetryStartKey(startKey) == startKey

\* the backoff timer fires: the next attempt starts
Wake(p) ==
    /\ pc[p] = "sleep"
    /\ now' = IF now < call[p].wakeAt THEN call[p].wakeAt ELSE now
    /\ call' = [call EXCEPT ![p].attempt = @ + 1, ![p].delay = NextDelay(@),
                            ![p].startKey = RetryStartKey(@)]
    /\ hist' = Kept([hist EXCEPT ![p].tokens = @ + 1])
    /\ pc' = [pc EXCEPT ![p] = "token"]
    /\ UNCHANGED <<reportCache, heap, ret, prev, ncalls, ticks, world, facade, browser>>

---------------------------------------------------------------------------
(* The caller and the clock *)

\* the caller adds an element to, or removes one from, the array it was handed
MutateRows(p, op) ==
    /\ pc[p] = "done"
    /\ ret[p].status = "returned"
    /\ ~ret[p].touched
    /\ op \in {"push", "pop"}
    /\ op = "pop" => heap[ret[p].rows] # <<>>
    /\ heap' = [heap EXCEPT ![ret[p].rows] =
                    IF op = "push" THEN Append(@, CallerRow) ELSE SubSeq(@, 1, Len(@) - 1)]
    /\ ret' = [ret EXCEPT ![p].touched = TRUE]
    /\ UNCHANGED <<now, reportCache, pc, call, hist, prev, ncalls, ticks, world, facade,
                   browser>>

\* the caller is done with the settled call and may make another
Release(p) ==
    /\ pc[p] = "done"
    /\ prev' = [prev EXCEPT ![p] = [made |-> TRUE, report |-> call[p].report,
                                    tenant |-> call[p].tenant, params |-> call[p].params,
                                    cacheKey |-> call[p].cacheKey, ret |-> ret[p],
                                    wrote |-> hist[p].wrote]]
    /\ pc' = [pc EXCEPT ![p] = "idle"]
    /\ call' = [call EXCEPT ![p] = NoCall]
    /\ hist' = [hist EXCEPT ![p] = NoHist]
    /\ ret' = [ret EXCEPT ![p] = NoRet]
    /\ UNCHANGED <<now, reportCache, heap, ncalls, ticks, world, facade, browser>>

\* time passes between calls: long enough for every cache entry to expire
Tick ==
    /\ ticks < MaxTicks
    /\ \A p \in Procs : pc[p] = "idle"
    /\ ticks' = ticks + 1
    /\ now' = now + CACHE_TTL
    /\ UNCHANGED <<reportCache, heap, pc, call, hist, ret, prev, ncalls, world, facade,
                   browser>>

---------------------------------------------------------------------------
(* The HTTP facade: GET /api/reports/:type up to its call of fetchReport *)

\* a number, or NaN
Num(v) == [isNaN |-> FALSE, v |-> v]

NaN == [isNaN |-> TRUE, v |-> 0]

IsDigit(c) == \E d \in 1 .. 10 : Digits[d] = c

\* the value of a sequence of decimal digits
RECURSIVE DigitsValue(_)
DigitsValue(s) ==
    IF s = <<>> THEN 0
    ELSE 10 * DigitsValue(SubSeq(s, 1, Len(s) - 1))
         + (CHOOSE d \in 0 .. 9 : Digits[d + 1] = s[Len(s)])

\* Number(s) for a string of the characters -, x and digits: '' is 0, an optional sign
\* followed by digits is that integer, anything else is NaN
ToNumber(s) ==
    IF s = <<>> THEN Num(0)
    ELSE LET negative == Head(s) = "-"
             digits == IF negative THEN Tail(s) ELSE s
         IN IF digits # <<>> /\ \A i \in 1 .. Len(digits) : IsDigit(digits[i])
            THEN Num(IF negative THEN 0 - DigitsValue(digits) ELSE DigitsValue(digits))
            ELSE NaN

\* Date.parse(s), in milliseconds, of the date strings the requests carry
DateParse(s) ==
    CASE s = "1970-01-01T00:00:01.500Z" -> Num(1500)
      [] s = "1970-01-01T00:00:02Z" -> Num(2000)
      [] OTHER -> NaN

\* a || b for numbers: NaN and 0 are falsy
OrElse(a, b) == IF a.isNaN \/ a.v = 0 THEN b ELSE a

\* Math.min(a, b) for a number a that is not NaN
MathMin(a, b) == IF a.v < b THEN a.v ELSE b

\* Math.min(Number(limitStr) || 1000, 1000); Number(undefined) is NaN
Limit(query) ==
    MathMin(OrElse(IF Has(query, "limit") THEN ToNumber(query.limit) ELSE NaN,
                   Num(1000)), 1000)

\* Math.floor(Date.parse(s) / 1000)
Seconds(s) == DateParse(s).v \div 1000

\* the params the handler passes to fetchReport
FacadeParams(query) ==
    (IF Has(query, "start") /\ query.start # "" THEN [startDate |-> Seconds(query.start)]
     ELSE NoParams)
    @@ (IF Has(query, "end") /\ query.end # "" THEN [endDate |-> Seconds(query.end)]
        ELSE NoParams)
    @@ (IF Has(query, "startKey") /\ query.startKey # "" THEN [start_key |-> query.startKey]
        ELSE NoParams)
    @@ [maxRows |-> Limit(query)]

\* the characters a limit parameter is made of
LimitChars == {"-", "0", "1", "5", "x"}

LimitStrings == UNION {[1 .. n -> LimitChars] : n \in 0 .. MaxLimitLen}

\* the requests: each query parameter is absent or has one of a few values
Queries ==
    {[type |-> "cdrs"] @@ a @@ st @@ en @@ l @@ k :
        a \in {NoParams, [account |-> <<"t1">>]},
        st \in {NoParams, [start |-> "1970-01-01T00:00:01.500Z"], [start |-> "soon"]},
        en \in {NoParams, [end |-> "1970-01-01T00:00:02Z"]},
        l \in {NoParams} \cup {[limit |-> str] : str \in LimitStrings},
        k \in {NoParams, [startKey |-> "K2"]}}

NoRequest == [status |-> "none"]

\* the handler from the arrival of the request to its call of fetchReport, or to the
\* response 400 it sends instead
HandleRequest ==
    /\ facade.status = "received"
    /\ LET query == facade.query
       IN facade' =
            IF ~Has(query, "account") \/ query.account = <<>>
            THEN [status |-> "400", query |-> query, error |-> "Missing account query param"]
            ELSE IF Has(query, "start") /\ query.start # "" /\ DateParse(query.start).isNaN
            THEN [status |-> "400", query |-> query, error |-> "Invalid start date"]
            ELSE IF Has(query, "end") /\ query.end # "" /\ DateParse(query.end).isNaN
            THEN [status |-> "400", query |-> query, error |-> "Invalid end date"]
            ELSE [status |-> "called", query |-> query, type |-> query.type,
                  account |-> query.account, params |-> FacadeParams(query)]
    /\ UNCHANGED <<now, reportCache, heap, pc, call, hist, ret, prev, ncalls, ticks,
                   world, browser>>

\* fetchReport settles and the handler responds with the rows or with the error
SettleRequest(outcome) ==
    /\ facade.status = "called"
    /\ facade' = [facade EXCEPT !.status = IF outcome = "returned" THEN "200" ELSE "500"]
    /\ UNCHANGED <<now, reportCache, heap, pc, call, hist, ret, prev, ncalls, ticks,
                   world, browser>>

---------------------------------------------------------------------------
(* The browser page: renderReportTable and its duration workers *)

MAX_CONCURRENT == 5

\* the page before its first render: renders counts the times table.innerHTML was
\* written, table lists the recordings of the audio elements now in the document, filled
\* the recordings whose span in the document has text, pools[r] is audioEls and idx of
\* the render that wrote the table the r-th time, claims the (render, element, worker)
\* triples of the elements workers took, and inflight the workers that await a response
NoPage == [renders |-> 0, table |-> <<>>, filled |-> {}, pools |-> <<>>, claims |-> {},
           inflight |-> {}]

\* the recordings of a set, in the order of the fetched records
RECURSIVE InOrder(_)
InOrder(ids) ==
    IF ids = {} THEN <<>>
    ELSE LET first == CHOOSE i \in ids : \A j \in ids : i <= j
         IN <<first>> \o InOrder(ids \ {first})

\* the records a render may be given: the fetched records up to any one of them, as a
\* filter on the leading column selects them
RecordSets == {1 .. n : n \in 0 .. MaxAudio}

InDocument(table, id) == \E i \in 1 .. Len(table) : table[i] = id

\* the index of the element at which a worker that reads idx stops to send a request:
\* the first element from idx on whose span is in the document and has no text; 0 when
\* the worker runs off the end of audioEls
NextRequest(pool, table, filled) ==
    LET open == {j \in pool.idx + 1 .. Len(pool.els) :
                    InDocument(table, pool.els[j]) /\ pool.els[j] \notin filled}
    IN IF open = {} THEN 0 ELSE CHOOSE j \in open : \A k \in open : j <= k

\* Math.min(MAX_CONCURRENT, audioEls.length)
PoolSize(n) == IF n < MAX_CONCURRENT THEN n ELSE MAX_CONCURRENT

\* renderReportTable(records): the table is written and, when it has audio elements, the
\* workers are started; each runs up to its first request, and the spans of a table just
\* written are all in the document and empty, so the k-th worker takes the k-th element
RenderReportTable(ids) ==
    /\ browser.renders < MaxRenders
    /\ LET r == browser.renders + 1
           els == InOrder(ids)
           n == PoolSize(Len(els))
       IN browser' =
            [renders |-> r, table |-> els, filled |-> {},
             pools |-> Append(browser.pools, [els |-> els, idx |-> n]),
             claims |-> browser.claims \cup {<<r, k, k>> : k \in 1 .. n},
             inflight |-> browser.inflight
                          \cup {[render |-> r, worker |-> k, el |-> k, span |-> r] :
                                    k \in 1 .. n}]
    /\ UNCHANGED <<now, reportCache, heap, pc, call, hist, ret, prev, ncalls, ticks,
                   world, facade>>

\* the form is submitted: the table is emptied before the reports are fetched
ClearTable ==
    /\ browser.renders < MaxRenders
    /\ browser.table # <<>>
    /\ browser' = [browser EXCEPT !.renders = @ + 1, !.table = <<>>, !.filled = {},
                                  !.pools = Append(@, [els |-> <<>>, idx |-> 0])]
    /\ UNCHANGED <<now, reportCache, heap, pc, call, hist, ret, prev, ncalls, ticks,
                   world, facade>>

\* the request of a worker settles: with a duration the worker writes the span it had
\* looked up before the request (which is in the document only if the table was not
\* written since), then it goes round its loop to its next request or to the end
WorkerResumes(w, withDuration) ==
    /\ w \in browser.inflight
    /\ LET pool == browser.pools[w.render]
           filled == IF withDuration /\ w.span = browser.renders
                     THEN browser.filled \cup {pool.els[w.el]}
                     ELSE browser.filled
           next == NextRequest(pool, browser.table, filled)
           last == IF next = 0 THEN Len(pool.els) ELSE next
       IN browser' =
            [browser EXCEPT
                !.filled = filled,
                !.pools[w.render].idx = last,
                !.claims = @ \cup {<<w.render, j, w.worker>> : j \in pool.idx + 1 .. last},
                !.inflight = (@ \ {w})
                             \cup (IF next = 0 THEN {}
                                   ELSE {[render |-> w.render, worker |-> w.worker,
                                          el |-> next, span |-> browser.renders]})]
    /\ UNCHANGED <<now, reportCache, heap, pc, call, hist, ret, prev, ncalls, ticks,
                   world, facade>>

---------------------------------------------------------------------------
(* Specifications *)

InitFetcher(w) ==
    /\ world = w
    /\ now = 0
    /\ reportCache = [k \in {} |-> 0]
    /\ heap = <<>>
    /\ pc = [p \in Procs |-> "idle"]
    /\ call = [p \in Procs |-> NoCall]
    /\ hist = [p \in Procs |-> NoHist]
    /\ ret = [p \in Procs |-> NoRet]
    /\ prev = [p \in Procs |-> NoPrev]
    /\ ncalls = [p \in Procs |-> 0]
    /\ ticks = 0

InitWith(w) ==
    /\ InitFetcher(w)
    /\ facade = NoRequest
    /\ browser = NoPage

\* one caller that makes MaxCalls calls one after the other
Sequential ==
    [history |-> TRUE, pages |-> FALSE, requests |-> FALSE, stamped |-> FALSE,
     ops |-> {"push", "pop"}, procs |-> {1}, calls |-> MaxCalls,
     failures |-> MaxFailures, reports |-> {"cdrs", "queueCalls", "bogus"},
     tenants |-> {<<"t1">>}, params |-> AllParams,
     bodies |-> {EmptyMore, TwoMore, ThreeEnd}, errors |-> {"e1"}]

\* one call, every report kind, every body shape and two distinguishable errors
OneCall ==
    [history |-> TRUE, pages |-> FALSE, requests |-> FALSE, stamped |-> FALSE,
     ops |-> {"push", "pop"}, procs |-> {1}, calls |-> 1,
     failures |-> MAX_RETRIES + 1, reports |-> AllReports, tenants |-> {<<"t1">>},
     params |-> AllParams, bodies |-> AllBodies, errors |-> Errors]

\* as Sequential, for one report kind, two windows and two upstream answers
Repeated ==
    [history |-> TRUE, pages |-> FALSE, requests |-> FALSE, stamped |-> FALSE,
     ops |-> {"push", "pop"}, procs |-> {1}, calls |-> MaxCalls,
     failures |-> MaxFailures, reports |-> {"cdrs"}, tenants |-> {<<"t1">>},
     params |-> {NoParams, [startDate |-> 1, endDate |-> 2]},
     bodies |-> {EmptyMore, TwoMore}, errors |-> {"e1"}]

\* one caller whose calls differ in maxRows, start cursor, a filter or the window
Variants ==
    [history |-> TRUE, pages |-> FALSE, requests |-> FALSE, stamped |-> FALSE,
     ops |-> {"push", "pop"}, procs |-> {1}, calls |-> MaxCalls,
     failures |-> MaxFailures, reports |-> {"cdrs"}, tenants |-> {<<"t1">>},
     params |-> {[maxRows |-> 1], [start_key |-> "K2"], [disposition |-> "sale"],
                 [startDate |-> 1, endDate |-> 2]},
     bodies |-> {TwoMore}, errors |-> {"e1"}]

\* two callers, one call each, their calls in flight at the same time
Concurrent ==
    [history |-> TRUE, pages |-> FALSE, requests |-> FALSE, stamped |-> FALSE,
     ops |-> {"push", "pop"}, procs |-> {1, 2}, calls |-> 1,
     failures |-> MaxFailures, reports |-> {"cdrs"}, tenants |-> {<<"t1">>},
     params |-> Windows, bodies |-> {TwoMore, EmptyEnd}, errors |-> {"e1"}]

\* one caller and an upstream that may answer any request with any page or a failure,
\* any number of times: no history is kept and no bound is put on the pages of a call
Unbounded ==
    [history |-> FALSE, pages |-> FALSE, requests |-> FALSE, stamped |-> FALSE,
     ops |-> {"push", "pop"}, procs |-> {1}, calls |-> MaxCalls,
     failures |-> MAX_RETRIES, reports |-> {"cdrs", "bogus"}, tenants |-> {<<"t1">>},
     params |-> Limits, bodies |-> {EmptyMore, EmptyEnd, TwoMore}, errors |-> {"e1"}]

\* one call of any registered kind whose upstream serves any of the pages
Normalizing ==
    [history |-> TRUE, pages |-> TRUE, requests |-> FALSE, stamped |-> FALSE,
     ops |-> {"push", "pop"}, procs |-> {1}, calls |-> 1,
     failures |-> MaxFailures, reports |-> DOMAIN ENDPOINTS, tenants |-> {<<"t1">>},
     params |-> {NoParams, [maxRows |-> 2]}, bodies |-> {}, errors |-> {"e1"}]

\* one call whose upstream answers with bodies of every shape
Shapes ==
    [history |-> TRUE, pages |-> FALSE, requests |-> FALSE, stamped |-> FALSE,
     ops |-> {"push", "pop"}, procs |-> {1}, calls |-> 1,
     failures |-> MaxFailures, reports |-> {"cdrs"}, tenants |-> {<<"t1">>},
     params |-> Limits,
     bodies |-> {EmptyMore, DataAndRows, BareArray, RowsMore, ObjectOfObjects, OwnKey,
                 ErrorObject},
     errors |-> {"e1"}]

\* one call of any registered kind, with or without a fields value of the caller, whose
\* GETs are recorded as they are sent
Requests ==
    [history |-> TRUE, pages |-> FALSE, requests |-> TRUE, stamped |-> FALSE,
     ops |-> {"push", "pop"}, procs |-> {1}, calls |-> 1, failures |-> MAX_RETRIES + 1,
     reports |-> DOMAIN ENDPOINTS, tenants |-> {<<"t1">>, <<"t2">>},
     params |-> {NoParams, [fields |-> <<"call_id">>], [fields |-> <<>>, maxRows |-> 1]},
     bodies |-> {EmptyMore, TwoMore}, errors |-> {"e1"}]

\* two callers, one call each, for either of two reports, two tenants and two windows,
\* and an upstream whose rows are marked with the request they answer
Isolated ==
    [history |-> FALSE, pages |-> FALSE, requests |-> FALSE, stamped |-> TRUE,
     ops |-> {"push", "pop"}, procs |-> {1, 2}, calls |-> 1, failures |-> MaxFailures,
     reports |-> {"queueCalls", "queueOutboundCalls"}, tenants |-> {<<"t1">>, <<"t2">>},
     params |-> Windows, bodies |-> {TwoMore, EmptyEnd}, errors |-> {"e1"}]

Init == InitWith(Sequential)

InitIsolated == InitWith(Isolated)

InitRequests == InitWith(Requests)

InitShapes == InitWith(Shapes)

InitNormalizing == InitWith(Normalizing)

InitUnbounded == InitWith(Unbounded)

InitConcurrent == InitWith(Concurrent)

InitVariants == InitWith(Variants)

InitRepeated == InitWith(Repeated)

InitOneCall == InitWith(OneCall)

Next ==
    \/ \E p \in Procs : \E report \in world.reports : \E tenant \in world.tenants :
           \E params \in world.params : StartCall(p, report, tenant, params)
    \/ \E p \in Procs : TokenOk(p)
    \/ \E p \in Procs : \E err \in world.errors : TokenFail(p, err)
    \/ \E p \in Procs : pc[p] = "get" /\ \E payload \in AnswersTo(p) : GetOk(p, payload)
    \/ \E p \in Procs : \E err \in world.errors : GetFail(p, err)
    \/ \E p \in Procs : Wake(p)
    \/ \E p \in Procs : \E op \in world.ops : MutateRows(p, op)
    \/ \E p \in Procs : Release(p)
    \/ Tick

Spec == Init /\ [][Next]_vars

SpecOneCall == InitOneCall /\ [][Next]_vars

SpecRepeated == InitRepeated /\ [][Next]_vars

SpecUnbounded == InitUnbounded /\ [][Next]_vars

SpecShapes == InitShapes /\ [][Next]_vars

SpecNormalizing == InitNormalizing /\ [][Next]_vars

\* a step of the call of p: an await of the call settles or its timer fires
Advance(p) ==
    \/ TokenOk(p)
    \/ \E err \in world.errors : TokenFail(p, err)
    \/ pc[p] = "get" /\ \E payload \in AnswersTo(p) : GetOk(p, payload)
    \/ \E err \in world.errors : GetFail(p, err)
    \/ Wake(p)

\* every await of a call settles and every timer fires: the event loop resumes the call
Fairness == \A p \in Procs : WF_vars(Advance(p))

SpecFair == InitUnbounded /\ [][Next]_vars /\ Fairness

SpecConcurrent == InitConcurrent /\ [][Next]_vars

SpecVariants == InitVariants /\ [][Next]_vars

SpecRequests == InitRequests /\ [][Next]_vars

SpecIsolated == InitIsolated /\ [][Next]_vars

\* a request arrives at the facade with any of the queries
InitFacade ==
    /\ InitFetcher(Sequential)
    /\ facade \in {[status |-> "received", query |-> query] : query \in Queries}
    /\ browser = NoPage

NextFacade ==
    \/ HandleRequest
    \/ \E outcome \in {"returned", "threw"} : SettleRequest(outcome)

SpecFacade == InitFacade /\ [][NextFacade]_vars

NextBrowser ==
    \/ \E ids \in RecordSets : RenderReportTable(ids)
    \/ ClearTable
    \/ \E w \in browser.inflight : \E withDuration \in BOOLEAN :
           WorkerResumes(w, withDuration)

SpecBrowser == InitWith(Sequential) /\ [][NextBrowser]_vars

---------------------------------------------------------------------------
(* Vocabulary of the properties *)

Cursors == {"K1", "K2"}

Registered == DOMAIN ENDPOINTS

Failures == {"tokenFail", "getFail", "bodyThrow"}

\* caller p's call has settled (returned or thrown) and p still holds the outcome
Done(p) == pc[p] = "done"

Returned(p) == Done(p) /\ ret[p].status = "returned"

\* the rows that the page payload alone yields for the call of p
RowsOfPage(p, payload) ==
    Normalize(call[p].report, Accumulate(call[p].params, <<>>, ExtractRecords(payload)))

\* the last page the call of p received
LastBody(p) == hist[p].bodies[Len(hist[p].bodies)]

\* p's present call has the cache key of p's previous call, which wrote the entry
SameKeyAsPrev(p) ==
    /\ prev[p].made
    /\ prev[p].wrote
    /\ call[p].report = prev[p].report
    /\ call[p].tenant = prev[p].tenant
    /\ Has(call[p].params, "startDate") = Has(prev[p].params, "startDate")
    /\ Has(call[p].params, "startDate") => call[p].params.startDate = prev[p].params.startDate
    /\ Has(call[p].params, "endDate") = Has(prev[p].params, "endDate")
    /\ Has(call[p].params, "endDate") => call[p].params.endDate = prev[p].params.endDate

\* p's present call started before the entry of p's previous call expired
WithinTtlOfPrev(p) == hist[p].startedAt < prev[p].ret.at + CACHE_TTL

---------------------------------------------------------------------------
(* C1..C10 *)

\* C1: every call that returns, from upstream or from the cache, returns an object
\* { rows, next } whose next is a cursor or null.
C1_ReturnsRowsAndNext ==
    \A p \in Procs :
        Returned(p) => ret[p].kind = "object" /\ ret[p].next \in Cursors \cup {Null}

\* C2: a call made while the cache holds a live entry for its key settles at once with
\* the cached rows: no token acquisition, no GET, no sleep, no cache write.
C2_LiveEntryIsServed ==
    [][\A p \in Procs :
          LET key == makeCacheKey(call'[p].report, call'[p].tenant, call'[p].params)
          IN (/\ pc[p] = "idle"
              /\ pc'[p] # "idle"
              /\ call'[p].report \in Registered
              /\ key \in DOMAIN reportCache
              /\ now < reportCache[key].expires)
             => (/\ pc'[p] = "done"
                 /\ ret'[p].status = "returned"
                 /\ ret'[p].snap = heap[reportCache[key].data]
                 /\ hist'[p].tokens = 0
                 /\ hist'[p].gets = 0
                 /\ hist'[p].sleeps = <<>>
                 /\ reportCache' = reportCache)]_vars

C2_Witness ==
    \E p \in Procs : Returned(p) /\ hist[p].hit /\ ret[p].snap # <<>>

\* C3: of two calls in a row with the same key, the first fetched from upstream and the
\* second started within the TTL, the second contacts no upstream and its result equals
\* the result of the first.
C3_SecondEqualsFirst ==
    \A p \in Procs :
        (Done(p) /\ SameKeyAsPrev(p) /\ WithinTtlOfPrev(p))
        => (/\ hist[p].tokens = 0
            /\ hist[p].gets = 0
            /\ ret[p].status = prev[p].ret.status
            /\ ret[p].kind = prev[p].ret.kind
            /\ ret[p].next = prev[p].ret.next
            /\ ret[p].snap = prev[p].ret.snap)

\* C4: adding or removing elements of the array the first call returned does not change
\* the rows a second call with the same key returns within the TTL.
C4_CopyIsolation ==
    \A p \in Procs :
        (Returned(p) /\ SameKeyAsPrev(p) /\ WithinTtlOfPrev(p))
        => ret[p].snap = prev[p].ret.snap

\* C5: a call for a report name that is not one of the four registered kinds fails with
\* the unknown-report error, with no token acquisition, no GET and no use of the cache.
C5_UnknownReportFailsFast ==
    \A p \in Procs :
        (pc[p] # "idle" /\ call[p].report \notin Registered)
        => (/\ Done(p)
            /\ ret[p].status = "threw"
            /\ ret[p].error = UnknownReport
            /\ hist[p].tokens = 0
            /\ hist[p].gets = 0
            /\ ~hist[p].hit
            /\ ~hist[p].wrote)

\* C6: a call that fetched from upstream and accumulated rows received no page after the
\* first page that yielded a record; its rows are those of that page alone (capped by
\* maxRows and normalized) and its next is that page's next_start_key, or null.
C6_EarlyExit ==
    \A p \in Procs :
        (Returned(p) /\ ~hist[p].hit /\ call[p].out # <<>>)
        => (/\ hist[p].log[Len(hist[p].log)] = "page"
            /\ hist[p].tokens = Len(hist[p].log)
            /\ \A i \in 1 .. Len(hist[p].bodies) - 1 :
                   Accumulate(call[p].params, <<>>, ExtractRecords(hist[p].bodies[i])) = <<>>
            /\ ret[p].snap = RowsOfPage(p, LastBody(p))
            /\ ret[p].next = NextStartKeyOf(LastBody(p)))

C6_Witness ==
    \E p \in Procs :
        /\ Returned(p)
        /\ ~hist[p].hit
        /\ Len(hist[p].bodies) > 1
        /\ Len(ret[p].snap) > 1
        /\ ret[p].next \in Cursors

\* C7: a call that specifies maxRows never returns more than maxRows rows.
C7_AtMostMaxRows ==
    \A p \in Procs :
        (Returned(p) /\ Has(call[p].params, "maxRows"))
        => Len(ret[p].snap) <= call[p].params.maxRows

\* C8: a call whose first two requests fail and whose later requests all succeed returns
\* the result of its last page, having slept exactly twice, 1000 ms and then 2000 ms, so
\* that at least 3000 ms passed.
C8_TwoFailuresThenSuccess ==
    \A p \in Procs :
        (/\ Done(p)
         /\ Len(hist[p].fails) = 2
         /\ hist[p].log[1] \in Failures
         /\ hist[p].log[2] \in Failures)
        => (/\ ret[p].status = "returned"
            /\ ret[p].kind = "object"
            /\ ret[p].snap = RowsOfPage(p, LastBody(p))
            /\ hist[p].sleeps = <<1000, 2000>>
            /\ ret[p].at - hist[p].startedAt >= 3000)

C8_Witness ==
    \E p \in Procs :
        /\ Returned(p)
        /\ hist[p].log = <<"getFail", "getFail", "page">>
        /\ ret[p].snap # <<>>

\* C9: a call in which three requests fail throws the error of the third failure; it
\* sleeps after the first and the second failure only and starts no request after the
\* third.
C9_ThirdFailurePropagates ==
    \A p \in Procs :
        /\ Len(hist[p].fails) <= MAX_RETRIES
        /\ Len(hist[p].fails) = 3
           => (/\ Done(p)
               /\ ret[p].status = "threw"
               /\ ret[p].error = hist[p].fails[3]
               /\ hist[p].sleeps = <<1000, 2000>>
               /\ hist[p].log[Len(hist[p].log)] \in Failures
               /\ hist[p].tokens = Len(hist[p].log)
               /\ ~hist[p].wrote)

C9_Witness ==
    \E p \in Procs :
        /\ Done(p)
        /\ hist[p].log = <<"getFail", "getFail", "getFail">>
        /\ hist[p].fails[1] # hist[p].fails[3]
        /\ hist[p].fails[2] # hist[p].fails[3]

\* C10: after a call returned next = C, a following call for the same report, tenant and
\* window that passes C as its start cursor returns the records of the page the upstream
\* serves for C.
C10_ResumesAfterCursor ==
    \A p \in Procs :
        (/\ Returned(p)
         /\ SameKeyAsPrev(p)
         /\ prev[p].ret.next \in Cursors
         /\ Has(call[p].params, "start_key")
         /\ call[p].params.start_key = prev[p].ret.next)
        => (/\ hist[p].gets > 0
            /\ hist[p].keys[1] = prev[p].ret.next
            /\ ret[p].snap = RowsOfPage(p, LastBody(p)))

---------------------------------------------------------------------------
(* C11..C20 *)

\* p's call returned rows it fetched from upstream
Fetched(p) == Returned(p) /\ ~hist[p].hit

\* C11: when a call that missed the cache returns, the cache entry of its key holds the
\* very rows it returns, which are the normalized accumulated rows, and the entry expires
\* 5 minutes after the clock value of the write (not of the start of the call).
C11_StoresWhatItReturns ==
    \A p \in Procs :
        Fetched(p)
        => (/\ hist[p].wrote
            /\ call[p].cacheKey \in DOMAIN reportCache
            /\ reportCache[call[p].cacheKey].data = ret[p].rows
            /\ ret[p].snap = Normalize(call[p].report, call[p].out)
            /\ reportCache[call[p].cacheKey].expires = ret[p].at + CACHE_TTL)

C11_Witness ==
    \E p \in Procs :
        /\ Fetched(p)
        /\ ret[p].at > hist[p].startedAt
        /\ ret[p].snap # <<>>
        /\ ret[p].snap # call[p].out

\* the step starts a call of caller p
Starts(p) == pc[p] = "idle" /\ pc'[p] # "idle"

\* the step is the return of a call of some caller that fetched the entry of key upstream
StoredBy(key) ==
    \E p \in Procs :
        /\ pc[p] # "done"
        /\ pc'[p] = "done"
        /\ ret'[p].status = "returned"
        /\ ~hist'[p].hit
        /\ call'[p].cacheKey = key

\* C12: a call is served from the cache only if its key has an entry with now < expires;
\* a call that finds an entry with now >= expires goes upstream and the lookup leaves the
\* cache as it was; no step removes a key, and an entry changes only when a call that
\* fetched its key from upstream returns.
C12_ServedOnlyWhileLive ==
    [][/\ \A p \in Procs :
             LET key == makeCacheKey(call'[p].report, call'[p].tenant, call'[p].params)
             IN Starts(p)
                => (/\ hist'[p].hit
                       => (key \in DOMAIN reportCache /\ now < reportCache[key].expires)
                    /\ (key \in DOMAIN reportCache /\ now >= reportCache[key].expires)
                       => (/\ pc'[p] = "token"
                           /\ ~hist'[p].hit
                           /\ hist'[p].tokens = 1
                           /\ reportCache' = reportCache))
       /\ DOMAIN reportCache \subseteq DOMAIN reportCache'
       /\ \A key \in DOMAIN reportCache :
             reportCache'[key] # reportCache[key] => StoredBy(key)]_vars

C12_Witness ==
    \E p \in Procs :
        /\ pc[p] = "get"
        /\ SameKeyAsPrev(p)
        /\ call[p].cacheKey \in DOMAIN reportCache
        /\ reportCache[call[p].cacheKey].expires = hist[p].startedAt
        /\ now = hist[p].startedAt

\* the parameter objects a and b have the same startDate and the same endDate
SameWindow(a, b) ==
    /\ Has(a, "startDate") = Has(b, "startDate")
    /\ Has(a, "startDate") => a.startDate = b.startDate
    /\ Has(a, "endDate") = Has(b, "endDate")
    /\ Has(a, "endDate") => a.endDate = b.endDate

StoredAfter(p, q) ==
    /\ Fetched(p)
    /\ Fetched(q)
    /\ call[p].cacheKey = call[q].cacheKey
    /\ ret[p].rows > ret[q].rows

\* no call, settled or released, stored the key of p's call after p's call did
StoredLast(p) ==
    \A r \in Procs \ {p} :
        /\ ~StoredAfter(r, p)
        /\ (prev[r].wrote /\ prev[r].cacheKey = call[p].cacheKey)
           => prev[r].ret.rows < ret[p].rows

\* C14: every call that missed issued a GET of its own, and once two calls with the same
\* key have both fetched and returned, the entry holds the rows and the expiry of the one
\* that stored last.
C14_LastWriteWins ==
    \A p \in Procs :
        /\ Fetched(p) => hist[p].gets >= 1 /\ Len(hist[p].bodies) >= 1
        /\ \A q \in Procs :
               (StoredAfter(p, q) /\ StoredLast(p))
               => (/\ reportCache[call[p].cacheKey].data = ret[p].rows
                   /\ reportCache[call[p].cacheKey].expires = ret[p].at + CACHE_TTL)

\* two calls with the same key both missed and both fetched; the one that started first
\* stored last, and the entry holds its rows, which are not the rows of the other
C14_Witness ==
    \E p \in Procs : \E q \in Procs :
        /\ StoredAfter(p, q)
        /\ hist[p].startedAt < hist[q].startedAt
        /\ hist[q].startedAt < ret[q].at + CACHE_TTL
        /\ hist[p].gets >= 1
        /\ hist[q].gets >= 1
        /\ ret[p].snap # ret[q].snap
        /\ ~ret[p].touched
        /\ ~ret[q].touched
        /\ heap[reportCache[call[p].cacheKey].data] = ret[p].snap

\* the call of p is in flight: it waits for a token, for a page or for its backoff timer
InFlight(p) == pc[p] \in {"token", "get", "sleep"}

\* C15: under fair scheduling, whatever the upstream answers, every call that has started
\* eventually returns a result or fails with an error.
C15_EveryCallSettles ==
    \A p \in Procs : InFlight(p) ~> Done(p)

\* the step settles a call of p
Settles(p) == pc[p] # "done" /\ pc'[p] = "done"

\* C16: the step in which a call fails (unknown report or last attempt failed) hands the
\* caller the error and no rows and leaves the cache and every array as they were; the
\* cache changes in no step other than the return of a call with a result, so a call
\* that fails has created, overwritten or re-stamped no entry.
C16_FailureLeavesCache ==
    [][/\ \A p \in Procs :
             (Settles(p) /\ ret'[p].status = "threw")
             => (/\ ret'[p].kind = "none"
                 /\ ret'[p].rows = 0
                 /\ ret'[p].snap = <<>>
                 /\ ret'[p].error \in world.errors \cup {TypeError, UnknownReport}
                 /\ reportCache' = reportCache
                 /\ heap' = heap)
       /\ reportCache' # reportCache
          => \E p \in Procs : Settles(p) /\ ret'[p].status = "returned"]_vars

\* a call failed after it had received a page with a cursor, and the entry of its key,
\* stored by an earlier call and expired since, is still what that call stored
C16_Witness ==
    \E p \in Procs :
        /\ Done(p)
        /\ ret[p].status = "threw"
        /\ ret[p].error \in world.errors
        /\ call[p].nextStartKey \in Cursors
        /\ prev[p].ret.status = "returned"
        /\ prev[p].cacheKey = call[p].cacheKey
        /\ reportCache[call[p].cacheKey].data = prev[p].ret.rows
        /\ reportCache[call[p].cacheKey].expires = prev[p].ret.at + CACHE_TTL
        /\ reportCache[call[p].cacheKey].expires <= now

\* the row has no call_id to group it by (none, or an empty one)
LacksCallId(r) == ~Has(r, "call_id") \/ r.call_id = ""

\* the positions of rows kept by the grouping: rows that lack a call_id, and the first
\* row of each call_id
FirstOfCallId(rows) ==
    {i \in 1 .. Len(rows) :
        \/ LacksCallId(rows[i])
        \/ \A j \in 1 .. i - 1 : LacksCallId(rows[j]) \/ rows[j].call_id # rows[i].call_id}

\* the subsequence of s at the positions K, from position i on
RECURSIVE Pick(_, _, _)
Pick(s, K, i) ==
    IF i > Len(s) THEN <<>>
    ELSE (IF i \in K THEN <<s[i]>> ELSE <<>>) \o Pick(s, K, i + 1)

\* the call of p fetched a report of this kind from upstream and returned
FetchedKind(p, report) == Fetched(p) /\ call[p].report = report

\* C17: for queueCalls the returned rows are, in their order, the accumulated rows that
\* lack a call_id or are the first of their call_id (each with its durations derived and
\* its agent_history cut); no two returned rows have the same call_id.
C17_FirstRowPerCallId ==
    \A p \in Procs :
        FetchedKind(p, "queueCalls")
        => LET out == call[p].out
               kept == Pick(out, FirstOfCallId(out), 1)
               rows == ret[p].snap
           IN /\ Len(rows) = Len(kept)
              /\ \A k \in 1 .. Len(kept) :
                     rows[k] = TruncateAgentHistory(DeriveDurations(kept[k]))
              /\ \A i \in 1 .. Len(rows) : \A j \in 1 .. Len(rows) :
                     (i # j /\ ~LacksCallId(rows[i]) /\ ~LacksCallId(rows[j]))
                     => rows[i].call_id # rows[j].call_id

\* a queueCalls call whose page had a row without call_id between two rows of one
\* call_id
C17_Witness ==
    \E p \in Procs :
        /\ FetchedKind(p, "queueCalls")
        /\ Len(call[p].out) = 3
        /\ Len(ret[p].snap) = 2
        /\ LacksCallId(call[p].out[2])
        /\ ~LacksCallId(call[p].out[1])
        /\ ~LacksCallId(call[p].out[3])
        /\ call[p].out[1].call_id = call[p].out[3].call_id

\* the rows a and b agree on the property f: both lack it or both have it with one value
SameField(a, b, f) == Has(a, f) = Has(b, f) /\ (Has(a, f) => a[f] = b[f])

\* the value of the property f of row r is an array of more than one element
LongArray(r, f) == Has(r, f) /\ IsArray(r[f]) /\ Len(r[f].v) > 1

\* the accumulated rows the returned rows of p's call come from, position by position
Originals(p) ==
    IF call[p].report = "queueCalls"
    THEN Pick(call[p].out, FirstOfCallId(call[p].out), 1)
    ELSE call[p].out

\* C18: for queueCalls, a returned row whose agent_history was an array of more than one
\* element has the one-element array of the first element of its own agent_history; any
\* other agent_history (array of 0 or 1 elements, non-array, none) and every
\* queue_history are as they were.
C18_AgentHistoryCut ==
    \A p \in Procs :
        FetchedKind(p, "queueCalls")
        => /\ Len(ret[p].snap) = Len(Originals(p))
           /\ \A k \in 1 .. Len(ret[p].snap) :
                  LET row == ret[p].snap[k]
                      orig == Originals(p)[k]
                  IN /\ IF LongArray(orig, "agent_history")
                        THEN row.agent_history = Arr(<<orig.agent_history.v[1]>>)
                        ELSE SameField(row, orig, "agent_history")
                     /\ SameField(row, orig, "queue_history")

\* a queueCalls call returned a row whose histories both had several elements, a row
\* whose agent_history is not an array and a row whose agent_history is an empty array
C18_Witness ==
    \E p \in Procs :
        /\ FetchedKind(p, "queueCalls")
        /\ Len(ret[p].snap) = 3
        /\ \E k \in 1 .. 3 :
               /\ LongArray(Originals(p)[k], "agent_history")
               /\ LongArray(ret[p].snap[k], "queue_history")
               /\ Len(ret[p].snap[k].agent_history.v) = 1
        /\ \E k \in 1 .. 3 : ret[p].snap[k].agent_history = Str("[]")
        /\ \E k \in 1 .. 3 : ret[p].snap[k].agent_history = Arr(<<>>)

\* C19: for queueOutboundCalls every accumulated row is returned, at its position and
\* with its call_id (rows that share a call_id included); a queue_history that was an
\* array of more than one element is the one-element array of its first element, and
\* agent_history is as it was.
C19_QueueHistoryCut ==
    \A p \in Procs :
        FetchedKind(p, "queueOutboundCalls")
        => /\ Len(ret[p].snap) = Len(call[p].out)
           /\ \A i \in 1 .. Len(call[p].out) :
                  LET row == ret[p].snap[i]
                      orig == call[p].out[i]
                  IN /\ LongArray(orig, "queue_history")
                        => row.queue_history = Arr(<<orig.queue_history.v[1]>>)
                     /\ SameField(row, orig, "agent_history")
                     /\ \A f \in DOMAIN orig \ {"queue_history", "talked_duration",
                                                 "wait_duration"} :
                            SameField(row, orig, f)

\* a queueOutboundCalls call returned three rows, two of them with one call_id, one with
\* a cut queue_history and an agent_history of several elements
C19_Witness ==
    \E p \in Procs :
        /\ FetchedKind(p, "queueOutboundCalls")
        /\ Len(ret[p].snap) = 3
        /\ ~LacksCallId(ret[p].snap[1])
        /\ ~LacksCallId(ret[p].snap[3])
        /\ ret[p].snap[1].call_id = ret[p].snap[3].call_id
        /\ \E i \in 1 .. 3 :
               /\ LongArray(call[p].out[i], "queue_history")
               /\ Len(ret[p].snap[i].queue_history.v) = 1
               /\ LongArray(ret[p].snap[i], "agent_history")

\* the row has the timestamp f (a timestamp of 0 stands for none)
HasTime(r, f) == Has(r, f) /\ r[f] # 0

\* C20: in the rows of the queue reports, talked_duration is hangup_time - answered_time
\* exactly when the row had no talked_duration and had both times; a row that had a
\* talked_duration, 0 included, keeps it, and no other row gets one.
C20_TalkedDuration ==
    \A p \in Procs :
        (FetchedKind(p, "queueCalls") \/ FetchedKind(p, "queueOutboundCalls"))
        => /\ Len(ret[p].snap) = Len(Originals(p))
           /\ \A k \in 1 .. Len(ret[p].snap) :
                  LET row == ret[p].snap[k]
                      orig == Originals(p)[k]
                  IN IF Has(orig, "talked_duration")
                     THEN SameField(row, orig, "talked_duration")
                     ELSE IF HasTime(orig, "hangup_time") /\ HasTime(orig, "answered_time")
                     THEN /\ Has(row, "talked_duration")
                          /\ row.talked_duration = orig.hangup_time - orig.answered_time
                     ELSE ~Has(row, "talked_duration")

---------------------------------------------------------------------------
(* C21..C30 *)

\* C21: in the rows of the queue reports, a row that had a wait_duration keeps it; a row
\* that had none and has a called_time gets answered_time - called_time if it has an
\* answered_time, else hangup_time - called_time if it has a hangup_time; no other row
\* gets a wait_duration.
C21_WaitDuration ==
    \A p \in Procs :
        (FetchedKind(p, "queueCalls") \/ FetchedKind(p, "queueOutboundCalls"))
        => /\ Len(ret[p].snap) = Len(Originals(p))
           /\ \A k \in 1 .. Len(ret[p].snap) :
                  LET row == ret[p].snap[k]
                      orig == Originals(p)[k]
                  IN IF Has(orig, "wait_duration")
                     THEN SameField(row, orig, "wait_duration")
                     ELSE IF ~HasTime(orig, "called_time")
                     THEN ~Has(row, "wait_duration")
                     ELSE IF HasTime(orig, "answered_time")
                     THEN /\ Has(row, "wait_duration")
                          /\ row.wait_duration = orig.answered_time - orig.called_time
                     ELSE IF HasTime(orig, "hangup_time")
                     THEN /\ Has(row, "wait_duration")
                          /\ row.wait_duration = orig.hangup_time - orig.called_time
                     ELSE ~Has(row, "wait_duration")

\* the reports whose rows are passed through as they come
PassThrough == {"cdrs", "campaignsActivity"}

\* C22: for cdrs and campaignsActivity the rows returned on a miss are the accumulated
\* upstream records, each at its position and with exactly its properties and values.
C22_PassThrough ==
    \A p \in Procs :
        (Fetched(p) /\ call[p].report \in PassThrough)
        => /\ ret[p].snap = call[p].out
           /\ call[p].out =
                 Accumulate(call[p].params, <<>>, ExtractRecords(LastBody(p)))

\* a pass-through call returned three rows, two of one call_id, among them a row with
\* histories of several elements and no durations and a row with talked_duration 0
C22_Witness ==
    \E p \in Procs :
        /\ Fetched(p)
        /\ call[p].report \in PassThrough
        /\ Len(ret[p].snap) = 3
        /\ ret[p].snap[1] = R1
        /\ ret[p].snap[2] = R2
        /\ ret[p].snap[3] = R3

\* the requests of p's call that failed so far: rejected token acquisitions and GETs
RequestFailures(p) ==
    Cardinality({i \in 1 .. Len(hist[p].log) : hist[p].log[i] \in {"tokenFail", "getFail"}})

\* C23: a call has advanced its attempt counter and has slept at most once per failed
\* token acquisition or GET: a response that was received, whatever its body, consumes
\* no attempt and causes no sleep.
C23_RetryOnlyOnFailure ==
    \A p \in Procs :
        /\ call[p].attempt <= RequestFailures(p)
        /\ Len(hist[p].sleeps) <= RequestFailures(p)
        /\ (Done(p) /\ ret[p].status = "threw" /\ call[p].report \in Registered)
           => RequestFailures(p) = MAX_RETRIES

\* the body matches none of the three expected patterns: it is flattened
Unmatched(payload) ==
    /\ ~(payload.t = "rec" /\ Has(payload.v, "data") /\ IsArray(payload.v.data))
    /\ payload.t # "arr"
    /\ ~(payload.t = "rec" /\ Has(payload.v, "rows") /\ IsArray(payload.v.rows))

\* C24: no received body makes a call fail: no call has caught an error raised by the
\* handling of a body, and every step that receives a body matching none of the three
\* patterns records the page and leaves the call without a failure more.
C24_UnmatchedBodyIsNoError ==
    [][\A p \in Procs :
          /\ \A i \in 1 .. Len(hist'[p].log) : hist'[p].log[i] # "bodyThrow"
          /\ ret'[p].error # TypeError
          /\ \A payload \in Answers :
                 (Unmatched(payload) /\ GetOk(p, payload))
                 => (/\ hist'[p].bodies = Append(hist[p].bodies, payload)
                     /\ hist'[p].fails = hist[p].fails
                     /\ pc'[p] # "sleep")]_vars

\* the property f of the body is an array
ArrayField(payload, f) == payload.t = "rec" /\ Has(payload.v, f) /\ IsArray(payload.v[f])

\* records is one record per top-level key of the body, in the order of the keys, each
\* with the properties of the key's value and with the key as its property key
KeyedRecords(payload, records) ==
    /\ Len(records) = Len(payload.order)
    /\ \A i \in 1 .. Len(records) :
           LET k == payload.order[i]
               own == Spread(Tagged(k, payload.v[k]))
           IN /\ DOMAIN records[i] = (DOMAIN own) \cup {"key"}
              /\ records[i].key = k
              /\ \A f \in (DOMAIN own) \ {"key"} : records[i][f] = own[f]

\* records is what the first matching rule yields for the body
ByFirstRule(payload, records) ==
    IF ArrayField(payload, "data") THEN records = payload.v.data.v
    ELSE IF payload.t = "arr" THEN records = payload.v
    ELSE IF ArrayField(payload, "rows") THEN records = payload.v.rows.v
    ELSE KeyedRecords(payload, records)

\* C25: the records of a page are body.data if that is an array, else the body if it is
\* an array, else body.rows if that is an array, else one record per top-level key of
\* the body annotated with that key (seen in the rows accumulated by a call without
\* maxRows, which are the records of the last page it received).
C25_ExtractionOrder ==
    \A p \in Procs :
        (hist[p].bodies # <<>> /\ ~Has(call[p].params, "maxRows"))
        => ByFirstRule(LastBody(p), call[p].out)

\* the backoff sleeps a call may take, in their order
Backoffs == <<1000, 2000>>

\* 2 to the power n
RECURSIVE Pow2(_)
Pow2(n) == IF n = 0 THEN 1 ELSE 2 * Pow2(n - 1)

\* C26: in one call at most 3 requests fail and at most 2 sleeps are taken, of 1000 ms
\* and then 2000 ms: the sleeps taken are as many as the failures caught (the third
\* failure apart), whatever pages were received between the failures, and the attempt
\* counter and the delay of a call in flight are those of its number of sleeps.
C26_FailuresCountedPerCall ==
    \A p \in Procs :
        /\ Len(hist[p].fails) <= MAX_RETRIES
        /\ Len(hist[p].sleeps) <= 2
        /\ hist[p].sleeps = SubSeq(Backoffs, 1, Len(hist[p].sleeps))
        /\ Len(hist[p].sleeps) =
              IF Len(hist[p].fails) = MAX_RETRIES THEN 2 ELSE Len(hist[p].fails)
        /\ InFlight(p)
           => (/\ call[p].attempt =
                     Len(hist[p].sleeps) - (IF pc[p] = "sleep" THEN 1 ELSE 0)
               /\ call[p].delay = FirstDelay * Pow2(call[p].attempt))

\* a call failed for good on its third failed request, having received a page after the
\* first and after the second failure
C26_Witness ==
    \E p \in Procs :
        /\ Done(p)
        /\ ret[p].status = "threw"
        /\ hist[p].log = <<"getFail", "page", "tokenFail", "page", "getFail">>
        /\ hist[p].sleeps = Backoffs

\* C27: the accumulator of a call is empty as long as the call is in flight and when it
\* fails, so it is empty whenever a failure is caught; the rows of a call that returns
\* were accumulated from the last page it received and from no other.
C27_AccumulatorEmptyAtCatch ==
    /\ \A p \in Procs :
           (InFlight(p) \/ (Done(p) /\ ret[p].status = "threw")) => call[p].out = <<>>
    /\ \A p \in Procs :
           Fetched(p)
           => call[p].out = Accumulate(call[p].params, <<>>, ExtractRecords(LastBody(p)))

\* a call received an empty page, caught a failure and then returned the rows of a
\* later page
C27_Witness ==
    \E p \in Procs :
        /\ Fetched(p)
        /\ hist[p].log = <<"page", "getFail", "page">>
        /\ call[p].out # <<>>

\* the outcomes of the GETs p's call has issued, in their order (a token acquisition
\* that fails issues no GET)
RECURSIVE GetOutcomes(_)
GetOutcomes(log) ==
    IF log = <<>> THEN <<>>
    ELSE (IF Head(log) = "tokenFail" THEN <<>> ELSE <<Head(log)>>) \o GetOutcomes(Tail(log))

\* C28: the GET that follows a GET that failed carries the start_key of the failed GET,
\* whatever pages were fetched before: a retry goes on from the page that failed.
C28_CursorSurvivesRetry ==
    \A p \in Procs :
        LET outcomes == GetOutcomes(hist[p].log)
        IN \A i \in 1 .. Len(hist[p].keys) - 1 :
               (i <= Len(outcomes) /\ outcomes[i] \in {"getFail", "bodyThrow"})
               => hist[p].keys[i + 1] = hist[p].keys[i]

\* a call that was passed the cursor K2 received an empty page with cursor K1, then its
\* GET for K1 failed and the retry asked for K1 again
C28_Witness ==
    \E p \in Procs :
        /\ Len(hist[p].log) >= 2
        /\ hist[p].log[1] = "page"
        /\ hist[p].log[2] = "getFail"
        /\ hist[p].keys = <<"K2", "K1", "K1">>

\* how many of the first i outcomes are received pages
PagesAmong(outcomes, i) == Cardinality({j \in 1 .. i : outcomes[j] = "page"})

C30_EmptyResultHasNoCursor ==
    \A p \in Procs :
        (Fetched(p) /\ ret[p].snap = <<>>)
        => (/\ ret[p].next = Null
            /\ NextStartKeyOf(LastBody(p)) = Null
            /\ call[p].out = <<>>)

\* a call returned zero rows after an empty page with a cursor and an empty last page
C30_Witness ==
    \E p \in Procs :
        /\ Fetched(p)
        /\ ret[p].snap = <<>>
        /\ Len(hist[p].bodies) = 2
        /\ NextStartKeyOf(hist[p].bodies[1]) \in Cursors

\* the fields value of a query, Undefined when it carries none
FieldsSent(qs) == IF Has(qs, "fields") THEN qs.fields ELSE Undefined

\* C31: every GET for queueCalls, queueOutboundCalls or campaignsActivity carries the
\* column list of its kind as fields, whatever fields value the caller passed, on every
\* page and every retry; a GET for cdrs carries the fields value of the caller, or none
\* when the caller passed none.
C31_FieldsProjection ==
    \A p \in Procs :
        \A i \in 1 .. Len(hist[p].sent) :
            LET sent == hist[p].sent[i]
            IN /\ sent.report = call[p].report
               /\ sent.report = "queueCalls"
                  => FieldsSent(sent.qs) = Join(QueueCallsFields)
               /\ sent.report = "queueOutboundCalls"
                  => FieldsSent(sent.qs) = Join(QueueOutboundFields)
               /\ sent.report = "campaignsActivity"
                  => FieldsSent(sent.qs) = Join(CampaignsActivityFields)
               /\ sent.report = "cdrs"
                  => FieldsSent(sent.qs) = FieldsSent(call[p].params)
               /\ FieldsSent(sent.qs) = FieldsSent(hist[p].sent[1].qs)

\* a queueCalls call whose caller passed a fields value of its own sent three GETs, the
\* second after a page and the third after a failure
C31_Witness ==
    \E p \in Procs :
        /\ call[p].report = "queueCalls"
        /\ Has(call[p].params, "fields")
        /\ call[p].params.fields = <<"call_id">>
        /\ Len(hist[p].sent) = 3
        /\ hist[p].log = <<"page", "getFail">>
        /\ hist[p].sent[3].qs.fields # call[p].params.fields

\* the place in the log of the token acquisition that the i-th GET followed: every entry
\* of the log is the outcome of one acquisition, and an acquisition that failed sent no
\* GET; the GET that is still pending followed the acquisition after the last entry
AcquisitionOfGet(log, i) ==
    IF i > Len(GetOutcomes(log)) THEN Len(log) + 1
    ELSE CHOOSE k \in 1 .. Len(log) :
             /\ log[k] # "tokenFail"
             /\ Len(GetOutcomes(SubSeq(log, 1, k))) = i

\* C32: the i-th GET of a call carries the token of the acquisition that came just
\* before it, made for the tenant of the call; a call has started at least as many
\* acquisitions as it has sent GETs; an acquisition that fails sends no GET and is
\* counted among the failures of the call.
C32_TokenBeforeEveryGet ==
    \A p \in Procs :
        /\ \A i \in 1 .. Len(hist[p].sent) :
               hist[p].sent[i].bearer =
                   AcquiredToken(call[p].tenant, AcquisitionOfGet(hist[p].log, i))
        /\ hist[p].gets <= hist[p].tokens
        /\ hist[p].gets = Len(hist[p].sent)
        /\ Len(hist[p].sent) =
              Len(GetOutcomes(hist[p].log)) + (IF pc[p] = "get" THEN 1 ELSE 0)
        /\ Len(hist[p].fails) =
              Cardinality({k \in 1 .. Len(hist[p].log) : hist[p].log[k] \in Failures})

\* a call of tenant t2 whose first acquisition failed has a second GET pending after a
\* page: its GETs carry the tokens of the second and of the third acquisition
C32_Witness ==
    \E p \in Procs :
        /\ pc[p] = "get"
        /\ call[p].tenant = <<"t2">>
        /\ hist[p].log = <<"tokenFail", "page">>
        /\ Len(hist[p].fails) = 1
        /\ Len(hist[p].sent) = 2
        /\ hist[p].sent[1].bearer = <<<<"t2">>, 2>>
        /\ hist[p].sent[2].bearer = <<<<"t2">>, 3>>

\* the row is a row of an upstream answer to a request made for the report, the tenant
\* and the window of the call of p
FetchedFor(row, p) ==
    /\ Has(row, "origin")
    /\ row.origin = OriginOf(call[p].report, call[p].tenant, call[p].params)

\* C33: every row a call returns, from upstream or from the cache, is a row of an
\* upstream answer to a request made for the report, the tenant and the window of the
\* call, whatever other calls are in flight; the one row that is not an upstream row is
\* the row a caller pushed into the array it was handed, and no call returns a row that
\* was fetched for another report, tenant or window.
C33_Isolation ==
    \A p \in Procs :
        Returned(p)
        => \A i \in 1 .. Len(ret[p].snap) :
               ret[p].snap[i] # CallerRow => FetchedFor(ret[p].snap[i], p)

\* two callers called for the same report and window and for different tenants, and each
\* call returned rows, all of them fetched for its own tenant
C33_Witness ==
    /\ Returned(1) /\ Returned(2)
    /\ call[1].report = call[2].report
    /\ call[1].params = call[2].params
    /\ call[1].tenant # call[2].tenant
    /\ ret[1].snap # <<>> /\ ret[2].snap # <<>>
    /\ \A i \in 1 .. Len(ret[2].snap) : FetchedFor(ret[2].snap[i], 2)
    /\ \A i \in 1 .. Len(ret[1].snap) : ~FetchedFor(ret[1].snap[i], 2)

\* the report of a cache key
ReportOfKey(key) == key[1]

\* no two of the rows share a call_id
DistinctCallIds(rows) ==
    \A i, j \in 1 .. Len(rows) :
        (i # j /\ ~LacksCallId(rows[i]) /\ ~LacksCallId(rows[j]))
        => rows[i].call_id # rows[j].call_id

\* C34: in every state, that is wherever a call in flight is suspended, the rows of each
\* cache entry of a queueCalls key have distinct call_ids and agent_history arrays of at
\* most one element, and the rows of each entry of a queueOutboundCalls key have
\* queue_history arrays of at most one element: the last page, the normalization and
\* the cache write are one step.
C34_CacheHoldsNormalizedRows ==
    \A key \in DOMAIN reportCache :
        LET rows == heap[reportCache[key].data]
        IN /\ ReportOfKey(key) = "queueCalls"
              => /\ DistinctCallIds(rows)
                 /\ \A i \in 1 .. Len(rows) : ~LongArray(rows[i], "agent_history")
           /\ ReportOfKey(key) = "queueOutboundCalls"
              => \A i \in 1 .. Len(rows) : ~LongArray(rows[i], "queue_history")

\* while the call of caller 1 waits for its page, the cache holds under the key of that
\* call the rows another call stored in the meantime, and an entry of the other kind
C34_Witness ==
    /\ pc[1] = "get"
    /\ call[1].cacheKey \in DOMAIN reportCache
    /\ heap[reportCache[call[1].cacheKey].data] # <<>>
    /\ Returned(2)
    /\ call[2].cacheKey = call[1].cacheKey
    /\ call[1].report = "queueCalls"

\* C35: normalizing the rows a call returned once more, for the report of the call,
\* gives the same rows, and so does normalizing the rows of a cache entry for the report
\* of its key: what the cache serves without normalizing is what normalization gives.
C35_NormalizeIdempotent ==
    /\ \A p \in Procs :
           Fetched(p) => Normalize(call[p].report, ret[p].snap) = ret[p].snap
    /\ \A key \in DOMAIN reportCache :
           Normalize(ReportOfKey(key), heap[reportCache[key].data])
               = heap[reportCache[key].data]

\* a queueCalls call returned two rows of the three it accumulated, one of them with a
\* derived talked_duration and a history that was cut
C35_Witness ==
    \E p \in Procs :
        /\ Fetched(p)
        /\ call[p].report = "queueCalls"
        /\ Len(call[p].out) = 3
        /\ Len(ret[p].snap) = 2
        /\ \E i \in 1 .. 2 :
               /\ LongArray(call[p].out[i], "agent_history")
               /\ ~Has(call[p].out[i], "talked_duration")
               /\ Has(ret[p].snap[i], "talked_duration")
        /\ Normalize("queueCalls", call[p].out) = ret[p].snap

\* C36: whatever the limit parameter of the request, the maxRows the facade passes to
\* fetchReport is an integer from 1 to 1000.
C36_MaxRowsInRange ==
    facade.status = "called" => facade.params.maxRows \in 1 .. 1000

\* C37: at most MAX_CONCURRENT duration requests are in flight at any time, also when the
\* table was written again while requests of an earlier render are pending, and within
\* one render each audio element is taken by one worker only.
C37_AtMostMaxConcurrent ==
    /\ Cardinality(browser.inflight) <= MAX_CONCURRENT
    /\ \A c, d \in browser.claims : (c[1] = d[1] /\ c[2] = d[2]) => c[3] = d[3]

=============================================================================
